---- MODULE Spec2Model ----
(***************************************************************************)
(* Model of src/app.py: one Streamlit session of the campus tour guide.    *)
(*                                                                         *)
(* The session's script runner executes the script top to bottom; every   *)
(* st.rerun() abandons the current run and starts the script again.  The  *)
(* MQTT network thread (on_message) rewrites mqtt_broadcast.json           *)
(* concurrently.  Coordinates are integers in metres of arc; the spots and *)
(* the valid fixes of the model lie on one meridian, where the geodesic    *)
(* distance is the difference of the latitudes.                            *)
(***************************************************************************)
EXTENDS Integers, Sequences, FiniteSets, TLC

\* ------------------------------------------------------------------------
\* Bounds of the model
\* ------------------------------------------------------------------------
MaxTime == 2        \* time.time() stamps are drawn from 1..MaxTime
MaxDeliver == 2     \* deliveries of the broadcast feed in one behaviour
MaxEvents == 3      \* arrival toasts recorded in one behaviour
MaxAsk == 2         \* button clicks and questions of the visitor in one behaviour

\* ------------------------------------------------------------------------
\* Program constants
\* ------------------------------------------------------------------------
TRIGGER_DIST == 150
MOVE_THRESHOLD == 5
UNKNOWN_DIST == 99999

\* Python's None: where the other values are strings, and where they are records
None == "None"
Nil == [none |-> TRUE]

\* mqtt_broadcast.json before the first message, and right after open(.., "w")
Absent == [file |-> "absent"]
Truncated == [file |-> "empty"]
\* a proper prefix of the dumped record (the buffer is flushed before the dump
\* is complete): it lacks the closing brace and is not JSON
Partial == [file |-> "partial"]

\* metres of arc in one degree (scale of the model's coordinates)
M_PER_DEG == 111000

Abs(x) == IF x < 0 THEN -x ELSE x

Pos(lat, lon) == [lat |-> lat, lon |-> lon]

\* geopy's Point: a latitude outside [-90, 90] raises ValueError
ValidLat(lat) == Abs(lat) <= 90 * M_PER_DEG
\* the range the specification requires of a longitude
ValidLon(lon) == Abs(lon) <= 180 * M_PER_DEG
ValidFix(p) == ValidLat(p.lat) /\ ValidLon(p.lon)

\* geopy's Point: a longitude outside [-180, 180] is wrapped into the range
NormLon(lon) ==
    IF Abs(lon) > 180 * M_PER_DEG
    THEN ((lon + 180 * M_PER_DEG) % (360 * M_PER_DEG)) - 180 * M_PER_DEG
    ELSE lon

\* the outcome of a call that may raise ValueError
Raised == [err |-> TRUE, meters |-> 0]
Meters(m) == [err |-> FALSE, meters |-> m]

\* geodesic(a, b).meters: ValueError for a latitude out of range, else the
\* distance in metres (exact along a meridian, where every position of the
\* model lies; the longitude term only separates wrapped longitudes)
geodesic(a, b) ==
    IF ~ValidLat(a.lat) \/ ~ValidLat(b.lat)
    THEN Raised
    ELSE Meters(Abs(a.lat - b.lat) + Abs(NormLon(a.lon) - NormLon(b.lon)))

\* ------------------------------------------------------------------------
\* data/spots.json and the positions the location sensor reports
\* ------------------------------------------------------------------------
Spot(key, lat) == [key |-> key, lat |-> lat, lon |-> 0]
SpotP == Spot("P", 0)
SpotQ == Spot("Q", 200)
\* an empty spots.json loads as well: line 45 checks only that the file exists
SpotConfigs == { <<>>, <<SpotP>>, <<SpotP, SpotQ>> }
SpotKeys == {"P", "Q"}

BadLatFix == Pos(91 * M_PER_DEG, 0)
BadLonFix == Pos(50, 181 * M_PER_DEG)
FixLats == {50, 100, 130, 150, 153, 155, 160, 180, 200}
Fixes == { Pos(l, 0) : l \in FixLats } \cup {BadLatFix, BadLonFix}
\* the positions reported in the behaviours where the broadcast feed is active
FeedFixes == { Pos(50, 0), Pos(153, 0) }

\* the commands the script presents, and the payloads the feed carries (the
\* empty payload is a legal MQTT message).  The publisher issues each command
\* once; the at-least-once feed may deliver it any number of times.
Commands == {"sos", "welcome"}
Payloads == Commands \cup {""}

\* the positions reported in the behaviours where the visitor uses the panel
VisitorFixes == { Pos(50, 0) }

\* the languages of the radio (line 327) and the suffixes of the audio files
Langs == {"Chinese", "Taiwanese"}
Suffixes == {"cn", "tw"}

\* data/audio/{key}_{suffix}.mp3
AudioPath(key, suffix) ==
    IF suffix = "cn"
    THEN (IF key = "P" THEN "P_cn" ELSE "Q_cn")
    ELSE (IF key = "P" THEN "P_tw" ELSE "Q_tw")
SuffixOf(path) == IF path \in {"P_cn", "Q_cn"} THEN "cn" ELSE "tw"
AudioPaths == { AudioPath(k, x) : k \in SpotKeys, x \in Suffixes }

\* what load_rag returns: the chain, or one of its error strings
Chain == "chain"
IndexMissing == "FAISS index missing"
KeyMissing == "GOOGLE_API_KEY missing in st.secrets"
RagError == "RAG Error"
RagOutcomes == {Chain, IndexMissing, KeyMissing, RagError}

\* what load_rag finds: the faiss_index directory, GOOGLE_API_KEY in
\* st.secrets, and whether building the chain goes through
Deps == [index : BOOLEAN, key : BOOLEAN, loads : BOOLEAN]
AllDeps == [index |-> TRUE, key |-> TRUE, loads |-> TRUE]

\* load_rag, lines 114-147
load_rag(d) ==
    IF ~d.index THEN IndexMissing
    ELSE IF ~d.key THEN KeyMissing
    ELSE IF ~d.loads THEN RagError
    ELSE Chain

\* best retrieval distance of a question, in hundredths (closer is better)
Scores == {20, 90}

VARIABLES
    SPOTS,           \* the loaded data/spots.json, in insertion order
    sensor,          \* the fixes get_geolocation reports in this behaviour
    deps,            \* what load_rag found when the process started
    qa_chain_or_error, \* the value load_rag() returned (cached for the process)
    files,           \* the suffixes whose audio files exist under data/audio
    feed,            \* deliveries the broadcast feed still makes
    user_coords,     \* st.session_state.user_coords
    current_spot,    \* st.session_state.current_spot
    mqtt_action,     \* st.session_state.mqtt_action
    last_mqtt_time,  \* st.session_state.last_mqtt_time
    audio_to_play,   \* st.session_state.audio_to_play
    file,            \* mqtt_broadcast.json: Absent, Truncated or the dumped record
    msg,             \* on_message between open(.., "w") and json.dump
    pc,              \* position of the session's script runner
    loc,             \* the value get_geolocation returned to this run
    panel,           \* what the last run that reached col_info rendered there
    events,          \* the arrival toasts emitted so far
    walk1,           \* progress of the stored fixes along Script1
    walk2,           \* progress of the stored fixes along Script2
    shown,           \* how often each broadcast command was presented
    accepted,        \* how often check_mqtt returned each broadcast command
    checked,         \* the arrival check has run on the stored position
    last_fix,        \* the most recent fix a run received from get_geolocation
    torn,            \* check_mqtt read the file while this record was written
    quota,           \* button clicks and questions the visitor still makes
    asks,            \* questions handled so far
    answer,          \* what the last question handling rendered
    retrieved,       \* invocations of the retriever so far
    generated,       \* invocations of the language model so far
    score,           \* best retrieval distance of the last question
    request          \* language and spot of the last click on the play button

vars == <<SPOTS, sensor, feed, user_coords, current_spot, mqtt_action,
          last_mqtt_time, audio_to_play, file, msg, pc, loc, panel, events,
          walk1, walk2, shown, accepted, checked, last_fix, torn, deps, qa_chain_or_error, files,
          quota, asks, answer, retrieved, generated, score, request>>

session == <<user_coords, current_spot, mqtt_action, last_mqtt_time, audio_to_play>>
config == <<SPOTS, sensor, deps, qa_chain_or_error, files>>
interaction == <<quota, asks, answer, retrieved, generated, score, request>>
ghost == <<events, walk1, walk2, shown, checked>>

\* ------------------------------------------------------------------------
\* Observation of the fix sequence (history variables, not program state)
\* ------------------------------------------------------------------------
Script1 == <<200, 130, 160, 100, 200>>
Script2 == <<50, 180, 50>>
Off == -1

\* the positions the arrival check has evaluated so far are the first w
\* distances of the script; a check at distance d repeats the last one, extends
\* the walk, or leaves the script for good
Advance(script, w, d) ==
    IF w >= 1 /\ script[w] = d THEN w
    ELSE IF w >= 0 /\ w < Len(script) /\ script[w + 1] = d THEN w + 1
    ELSE Off

VisitEnter(key) == [type |-> "VisitEnter", point |-> key]
VisitExit(key) == [type |-> "VisitExit", point |-> key]

\* ------------------------------------------------------------------------
\* Initial state: lines 45-69 and 149 (SPOTS loaded, session_state defaults,
\* load_rag called).  A behaviour is a walk over all the fixes, or a short
\* walk with the broadcast feed active, or a visit at one position with the
\* visitor using the play button and the chat input.
\* ------------------------------------------------------------------------
Init ==
    /\ SPOTS \in SpotConfigs
    /\ \/ /\ sensor = Fixes /\ feed = 0 /\ quota = 0
          /\ deps = AllDeps /\ files = Suffixes
       \/ /\ sensor = FeedFixes /\ feed = MaxDeliver /\ quota = 0
          /\ deps = AllDeps /\ files = Suffixes
       \/ /\ sensor = VisitorFixes /\ feed = 0 /\ quota = MaxAsk
          /\ deps \in Deps /\ files \in SUBSET Suffixes
    /\ qa_chain_or_error = load_rag(deps)
    /\ user_coords = Nil
    /\ current_spot = None
    /\ mqtt_action = None
    /\ last_mqtt_time = 0
    /\ audio_to_play = None
    /\ file = Absent
    /\ msg = Nil
    /\ pc = "idle"
    /\ loc = Nil
    /\ panel = "init"
    /\ events = <<>>
    /\ walk1 = 0
    /\ walk2 = 0
    /\ shown = [c \in Commands |-> 0]
    /\ accepted = [c \in Commands |-> 0]
    /\ checked = TRUE
    /\ torn = FALSE
    /\ last_fix = Nil
    /\ asks = 0
    /\ answer = "none"
    /\ retrieved = 0
    /\ generated = 0
    /\ score = 0
    /\ request = Nil

\* ------------------------------------------------------------------------
\* MQTT network thread: on_message, lines 84-95
\* ------------------------------------------------------------------------
\* lines 86-92: the payload is stamped with time.time() (wall clock, any
\* value) and open(MQTT_FILE, "w") truncates the file
OnMessageOpen ==
    /\ msg = Nil
    /\ feed > 0
    /\ \E c \in Payloads, t \in 1..MaxTime :
          msg' = [cmd |-> c, timestamp |-> t]
    /\ file' = Truncated
    /\ feed' = feed - 1
    /\ torn' = FALSE
    /\ UNCHANGED <<config, session, pc, loc, panel, ghost, accepted, interaction,
                   last_fix>>

\* line 93: json.dump writes the record in pieces; a part of it can reach the
\* file before the rest
OnMessageFlush ==
    /\ msg # Nil
    /\ file = Truncated
    /\ file' = Partial
    /\ UNCHANGED <<config, feed, session, msg, pc, loc, panel, ghost, accepted,
                   torn, interaction,
                   last_fix>>

\* line 93 and the end of the with block: the record reaches the file
OnMessageDump ==
    /\ msg # Nil
    /\ file' = msg
    /\ msg' = Nil
    /\ UNCHANGED <<config, feed, session, pc, loc, panel, ghost, accepted, torn,
                   interaction,
                   last_fix>>

\* ------------------------------------------------------------------------
\* check_mqtt, lines 154-171: the value returned and the new last_mqtt_time
\* ------------------------------------------------------------------------
NewerOrEqual(server_time, last) == server_time >= last
Newer(server_time, last) == server_time > last

\* lines 160-161 and 169-171: empty content, or JSONDecodeError caught
UnreadableMarksSeen(last) == [ret |-> None, last |-> MaxTime]
Unreadable(last) == [ret |-> None, last |-> last]

check_mqtt(f, last) ==
    IF f = Absent
    THEN [ret |-> None, last |-> last]
    ELSE IF f = Truncated \/ f = Partial
    THEN Unreadable(last)
    ELSE IF Newer(f.timestamp, last)
         THEN [ret |-> f.cmd, last |-> f.timestamp]
         ELSE [ret |-> None, last |-> last]

\* Python truth of a command string
Truthy(cmd) == cmd # None /\ cmd # ""

\* the commands check_mqtt has returned, counted per command
Accept(ret) ==
    IF ret \in Commands THEN [accepted EXCEPT ![ret] = @ + 1] ELSE accepted

\* ------------------------------------------------------------------------
\* background_worker, lines 176-191
\* ------------------------------------------------------------------------
\* the fragment's own timer run (run_every=4) while no script run is active
FragmentRun ==
    /\ pc = "idle"
    /\ Len(events) < MaxEvents
    /\ LET r == check_mqtt(file, last_mqtt_time) IN
          /\ last_mqtt_time' = r.last
          /\ accepted' = Accept(r.ret)
          /\ torn' = (torn \/ msg # Nil)
          /\ IF Truthy(r.ret)
             THEN mqtt_action' = r.ret /\ pc' = "top"
             ELSE mqtt_action' = mqtt_action /\ pc' = "idle"
    /\ UNCHANGED <<config, feed, user_coords, current_spot, audio_to_play,
                   file, msg, loc, panel, ghost, interaction,
                   last_fix>>

\* line 202: the call inside a full script run (a new run, or a rerun)
MainWorker ==
    /\ pc \in {"idle", "top"}
    /\ pc = "idle" => Len(events) < MaxEvents
    /\ LET r == check_mqtt(file, last_mqtt_time) IN
          /\ last_mqtt_time' = r.last
          /\ accepted' = Accept(r.ret)
          /\ torn' = (torn \/ msg # Nil)
          /\ IF Truthy(r.ret)
             THEN mqtt_action' = r.ret /\ pc' = "top"
             ELSE mqtt_action' = mqtt_action /\ pc' = "gps"
    /\ UNCHANGED <<config, feed, user_coords, current_spot, audio_to_play,
                   file, msg, loc, panel, ghost, interaction,
                   last_fix>>

\* ------------------------------------------------------------------------
\* GPS handling, lines 207-234
\* ------------------------------------------------------------------------
\* distance of a position from the only spot, for the scripted walks (-1: none)
DistFromOnlySpot(l) ==
    IF Len(SPOTS) = 1 /\ ~geodesic(l, Pos(SPOTS[1].lat, SPOTS[1].lon)).err
    THEN geodesic(l, Pos(SPOTS[1].lat, SPOTS[1].lon)).meters
    ELSE -1

Observe(l) ==
    IF l # Nil
    THEN /\ walk1' = Advance(Script1, walk1, DistFromOnlySpot(l))
         /\ walk2' = Advance(Script2, walk2, DistFromOnlySpot(l))
    ELSE UNCHANGED <<walk1, walk2>>

\* line 227
MovedOrEqual(dist) == dist >= MOVE_THRESHOLD
Moved(dist) == dist > MOVE_THRESHOLD

\* an uncaught exception ends the run; session_state stays as it is
Crash ==
    /\ pc' = "idle"
    /\ panel' = "crash"
    /\ loc' = Nil

GpsStep ==
    /\ pc = "gps"
    /\ \E l \in sensor \cup {Nil} :
          /\ last_fix' = IF l = Nil THEN last_fix ELSE l
          /\ IF l = Nil
             THEN \* lines 232-234: no fix in this run
                  /\ loc' = l /\ pc' = "mqtt"
                  /\ UNCHANGED <<user_coords, panel, checked>>
             ELSE IF user_coords = Nil
             THEN \* lines 222-224: the first fix is stored, no rerun
                  /\ user_coords' = l
                  /\ loc' = l /\ pc' = "mqtt"
                  /\ checked' = FALSE
                  /\ UNCHANGED panel
             ELSE IF geodesic(user_coords, l).err
             THEN \* line 226 raises
                  Crash /\ UNCHANGED <<user_coords, checked>>
             ELSE IF Moved(geodesic(user_coords, l).meters)
             THEN \* lines 227-230: store and st.rerun()
                  /\ user_coords' = l
                  /\ loc' = Nil /\ pc' = "top"
                  /\ checked' = FALSE
                  /\ UNCHANGED panel
             ELSE /\ loc' = l /\ pc' = "mqtt"
                  /\ UNCHANGED <<user_coords, panel, checked>>
    /\ UNCHANGED <<config, feed, current_spot, mqtt_action, last_mqtt_time,
                   audio_to_play, file, msg, events, walk1, walk2, shown,
                   accepted, torn, interaction>>

\* ------------------------------------------------------------------------
\* MQTT command handling, lines 236-252
\* ------------------------------------------------------------------------
\* lines 237-239
MqttStep ==
    /\ pc = "mqtt"
    /\ LET r == check_mqtt(file, last_mqtt_time) IN
          /\ last_mqtt_time' = r.last
          /\ accepted' = Accept(r.ret)
          /\ torn' = (torn \/ msg # Nil)
          /\ mqtt_action' = IF Truthy(r.ret) THEN r.ret ELSE mqtt_action
    /\ pc' = "present"
    /\ UNCHANGED <<config, feed, user_coords, current_spot, audio_to_play,
                   file, msg, loc, panel, ghost, interaction,
                   last_fix>>

\* line 251: the presented command is cleared
NotCleared(action) == action
Cleared(action) == None

\* line 252: st.rerun() abandons the run after the presentation
FallThrough(action) == "map"
AfterPresent(action) == "top"

\* lines 241-252: present the pending command, clear it and st.rerun()
PresentStep ==
    /\ pc = "present"
    /\ IF Truthy(mqtt_action)
       THEN /\ audio_to_play' = IF mqtt_action = "sos" THEN "alert" ELSE audio_to_play
            /\ shown' = IF mqtt_action \in Commands
                        THEN [shown EXCEPT ![mqtt_action] = @ + 1]
                        ELSE shown
            /\ mqtt_action' = Cleared(mqtt_action)
            /\ pc' = AfterPresent(mqtt_action)
            /\ loc' = Nil
       ELSE /\ pc' = "map"
            /\ UNCHANGED <<audio_to_play, shown, mqtt_action, loc>>
    /\ UNCHANGED <<config, feed, user_coords, current_spot, last_mqtt_time,
                   file, msg, panel, events, walk1, walk2, accepted, checked,
                   torn, interaction,
                   last_fix>>

\* ------------------------------------------------------------------------
\* Nearest-spot loop, lines 272-301
\* ------------------------------------------------------------------------
\* min_dist: float("inf") or a number
Inf == [inf |-> TRUE, val |-> 0]
Fin(v) == [inf |-> FALSE, val |-> v]

\* line 299: d < min_dist
CloserOrEqual(d, min_dist) == min_dist.inf \/ d <= min_dist.val
Closer(d, min_dist) == min_dist.inf \/ d < min_dist.val

RECURSIVE NearestLoop(_, _, _, _)
NearestLoop(spots, coords, nearest_key, min_dist) ==
    IF spots = <<>>
    THEN [err |-> FALSE, nearest_key |-> nearest_key, min_dist |-> min_dist]
    ELSE LET info == Head(spots)
             g == IF coords # Nil
                  THEN geodesic(coords, Pos(info.lat, info.lon))
                  ELSE Meters(UNKNOWN_DIST)
         IN  IF g.err
             THEN [err |-> TRUE, nearest_key |-> nearest_key, min_dist |-> min_dist]
             ELSE IF Closer(g.meters, min_dist)
             THEN NearestLoop(Tail(spots), coords, info.key, Fin(g.meters))
             ELSE NearestLoop(Tail(spots), coords, nearest_key, min_dist)

Nearest(spots, coords) == NearestLoop(spots, coords, None, Inf)

\* ------------------------------------------------------------------------
\* Audio playback and arrival check, lines 305-364
\* ------------------------------------------------------------------------
InRangeStrict(min_dist) == ~min_dist.inf /\ min_dist.val < TRIGGER_DIST
\* line 317
InRange(min_dist) == ~min_dist.inf /\ min_dist.val <= TRIGGER_DIST

Arrived(coords, n) == coords # Nil /\ n.nearest_key # None /\ InRange(n.min_dist)

NewArrivalAlways(spot, key) == TRUE
\* line 321
NewArrival(spot, key) == spot # key

\* data/audio/alert.mp3 is a fixed asset of the deployment
FileExists(path) == path = "alert" \/ SuffixOf(path) \in files

\* lines 307-314: st.audio raises on a file that does not exist, the except
\* swallows it and audio_to_play stays; otherwise it is cleared
AfterPlayback(path) ==
    IF path # None /\ ~FileExists(path) THEN path ELSE None

\* lines 335-338: the audio file the play button selects
PlayPath(lang, key) ==
    LET suffix == IF lang = "Chinese" THEN "cn" ELSE "tw"
        path == AudioPath(key, suffix)
    IN  IF ~FileExists(path) /\ lang = "Taiwanese"
        THEN AudioPath(key, "cn")
        ELSE path

\* line 348: isinstance(qa_chain_or_error, str)
NeverError(qa) == FALSE
IsError(qa) == qa # Chain

\* lines 355-364: what col_info shows outside every spot
OutsidePanel(coords, nearest_key) ==
    IF coords = Nil THEN "wait"
    ELSE IF nearest_key # None THEN "far" ELSE "nospot"

\* lines 334-341: the play button was clicked; audio_to_play is set and
\* st.rerun() abandons the run
PlayClick(key) ==
    /\ quota > 0
    /\ \E lang \in Langs :
          /\ audio_to_play' = PlayPath(lang, key)
          /\ request' = [lang |-> lang, key |-> key]
    /\ quota' = quota - 1
    /\ pc' = "top"
    /\ loc' = Nil
    /\ panel' = key
    /\ UNCHANGED <<asks, answer, retrieved, generated, score>>

\* lines 346-353: a question was submitted.  The chain runs the retriever
\* (k = 2, any distance) and then the language model, whose exception nothing
\* catches
Question(key) ==
    /\ quota > 0
    /\ quota' = quota - 1
    /\ asks' = asks + 1
    /\ audio_to_play' = AfterPlayback(audio_to_play)
    /\ UNCHANGED request
    /\ \E best \in Scores, llm_ok \in BOOLEAN :
          /\ score' = best
          /\ IF IsError(qa_chain_or_error)
             THEN /\ answer' = qa_chain_or_error
                  /\ UNCHANGED <<retrieved, generated>>
                  /\ pc' = "idle" /\ loc' = Nil /\ panel' = key
             ELSE /\ retrieved' = retrieved + 1
                  /\ generated' = generated + 1
                  /\ IF llm_ok
                     THEN /\ answer' = "Answered"
                          /\ pc' = "idle" /\ loc' = Nil /\ panel' = key
                     ELSE answer' = "raised" /\ Crash

\* the run ends with neither a click nor a question
NoInput(p) ==
    /\ audio_to_play' = AfterPlayback(audio_to_play)
    /\ pc' = "idle"
    /\ loc' = Nil
    /\ panel' = p
    /\ UNCHANGED interaction

MapStep ==
    /\ pc = "map"
    /\ LET n == Nearest(SPOTS, user_coords) IN
          IF n.err
          THEN \* line 282 raises
               Crash /\ UNCHANGED <<current_spot, audio_to_play, ghost, interaction>>
          ELSE /\ checked' = TRUE
               /\ Observe(user_coords)
               /\ IF Arrived(user_coords, n)
                  THEN /\ current_spot' = n.nearest_key
                       /\ events' = IF NewArrival(current_spot, n.nearest_key)
                                    THEN Append(events, VisitEnter(n.nearest_key))
                                    ELSE events
                       /\ \/ NoInput(n.nearest_key)
                          \/ PlayClick(n.nearest_key)
                          \/ Question(n.nearest_key)
                  ELSE /\ UNCHANGED <<current_spot, events>>
                       /\ NoInput(OutsidePanel(user_coords, n.nearest_key))
    /\ UNCHANGED <<config, feed, user_coords, mqtt_action, last_mqtt_time,
                   file, msg, shown, accepted, torn, last_fix>>

\* ------------------------------------------------------------------------
Next ==
    \/ OnMessageOpen
    \/ OnMessageFlush
    \/ OnMessageDump
    \/ FragmentRun
    \/ MainWorker
    \/ GpsStep
    \/ MqttStep
    \/ PresentStep
    \/ MapStep

Spec == Init /\ [][Next]_vars

TypeOK ==
    /\ SPOTS \in SpotConfigs
    /\ user_coords \in Fixes \cup {Nil}
    /\ current_spot \in SpotKeys \cup {None}
    /\ mqtt_action \in Payloads \cup {None}
    /\ last_mqtt_time \in 0..MaxTime
    /\ pc \in {"idle", "top", "gps", "mqtt", "present", "map"}
    /\ Len(events) <= MaxEvents
    /\ deps \in Deps
    /\ qa_chain_or_error \in RagOutcomes
    /\ files \subseteq Suffixes
    /\ audio_to_play \in AudioPaths \cup {None, "alert"}
    /\ quota \in 0..MaxAsk
    /\ last_fix \in Fixes \cup {Nil}
    /\ asks \in 0..MaxAsk
    /\ retrieved \in 0..MaxAsk
    /\ generated \in 0..MaxAsk
    /\ score \in Scores \cup {0}
    /\ answer \in (RagOutcomes \ {Chain}) \cup {"none", "Answered", "raised"}

\* ------------------------------------------------------------------------
\* Claims
\* ------------------------------------------------------------------------
OnlyP == Len(SPOTS) = 1

\* C1: with ENTER_RADIUS=120 and EXIT_RADIUS=170 and the single point P, the
\* fixes at distances 200, 130, 160, 100, 200 from P emit exactly one VisitEnter,
\* on the fix at distance 100, and no VisitExit: nothing is emitted before the
\* fourth fix (130 and 160 lie between the radii and change nothing), and from
\* the fourth fix on the emitted events are exactly <<VisitEnter(P)>>.
C1_HysteresisWalk ==
    OnlyP =>
        /\ walk1 \in 1..3 => events = <<>>
        /\ walk1 \in 4..5 => events = <<VisitEnter("P")>>

\* C2: with the single point P, the fixes at distances 50, 180, 50 emit exactly
\* VisitEnter(P), VisitExit(P), VisitEnter(P).
C2_ExitAndReenter ==
    (OnlyP /\ walk2 = 3) =>
        events = <<VisitEnter("P"), VisitExit("P"), VisitEnter("P")>>

\* position of the spot with the given key, and the distances of a position
SpotPos(key) ==
    LET i == CHOOSE i \in 1..Len(SPOTS) : SPOTS[i].key = key
    IN  Pos(SPOTS[i].lat, SPOTS[i].lon)
DistTo(coords, key) == geodesic(coords, SpotPos(key)).meters
DistToNth(coords, i) == geodesic(coords, Pos(SPOTS[i].lat, SPOTS[i].lon)).meters

\* the step of a script run that evaluates the arrival check without raising
ArrivalCheck == pc = "map" /\ pc' = "idle" /\ panel' # "crash"

\* C3: sticky assignment: while the current point is p and the position is
\* less than the exit radius from p (the code has the one radius TRIGGER_DIST),
\* the arrival check keeps the current point and emits nothing, also when
\* another point is nearer.
C3_Sticky ==
    [][ ( /\ ArrivalCheck
          /\ current_spot # None
          /\ user_coords # Nil
          /\ DistTo(user_coords, current_spot) < TRIGGER_DIST )
        => (current_spot' = current_spot /\ events' = events) ]_vars

\* C4: for every point p the emitted VisitEnter(p) and VisitExit(p) alternate
\* strictly, starting with VisitEnter(p).
PointEvents(p) == SelectSeq(events, LAMBDA e : e.point = p)
C4_Alternation ==
    \A p \in SpotKeys :
        \A i \in 1..Len(PointEvents(p)) :
            PointEvents(p)[i].type = IF i % 2 = 1 THEN "VisitEnter" ELSE "VisitExit"

\* C5 (as stated): from OUTSIDE, a run with a valid fix enters a point and
\* emits VisitEnter iff the distance from that fix to the nearest point is at
\* most the enter radius.
C5_EnterIffFixInRange ==
    [][ (ArrivalCheck /\ current_spot = None /\ loc # Nil /\ ValidFix(loc))
        => ( (\E i \in 1..Len(SPOTS) : DistToNth(loc, i) <= TRIGGER_DIST)
             <=> (current_spot' # None /\ Len(events') = Len(events) + 1) ) ]_vars

\* C5 (amended): from OUTSIDE, the arrival check enters a point q and emits
\* VisitEnter(q) iff the stored position is set and some point lies within
\* TRIGGER_DIST of it (boundary included), q being a point at the least
\* distance; otherwise the state stays OUTSIDE and nothing is emitted.
C5_EnterIffStoredInRange ==
    [][ (ArrivalCheck /\ current_spot = None)
        => IF /\ user_coords # Nil
              /\ \E i \in 1..Len(SPOTS) : DistToNth(user_coords, i) <= TRIGGER_DIST
           THEN \E i \in 1..Len(SPOTS) :
                   /\ DistToNth(user_coords, i) <= TRIGGER_DIST
                   /\ \A j \in 1..Len(SPOTS) :
                         DistToNth(user_coords, i) <= DistToNth(user_coords, j)
                   /\ current_spot' = SPOTS[i].key
                   /\ events' = Append(events, VisitEnter(SPOTS[i].key))
           ELSE current_spot' = None /\ events' = events ]_vars

\* the walk 200, 130 with one point: outside at 200 m, entered at 130 m
C5_Witness ==
    /\ OnlyP /\ walk1 = 2
    /\ user_coords = Pos(130, 0)
    /\ current_spot = "P"
    /\ events = <<VisitEnter("P")>>

\* C6: content is triggered at most once per contiguous visit: a further
\* arrival check inside the same point triggers nothing, and re-entering the
\* point after leaving it (the walk 50, 180, 50) triggers dispatch again.
C6_OncePerVisit ==
    [][ /\ (ArrivalCheck /\ panel \in SpotKeys /\ panel' = panel)
           => events' = events
        /\ (OnlyP /\ walk2 = 2 /\ walk2' = 3)
           => Len(events') = Len(events) + 1 ]_vars

\* the steps of a script run that got no fix: GPS handling, arrival check
NoFixGps == pc = "gps" /\ pc' = "mqtt" /\ loc' = Nil
NoFixArrival == pc = "map" /\ pc' = "idle" /\ loc = Nil

\* C7 (as stated): a run without a fix (and without a broadcast command)
\* leaves the stored position and the current point unchanged and emits nothing.
C7_NoFixNoOp ==
    [][ /\ NoFixGps => user_coords' = user_coords
        /\ NoFixArrival => /\ user_coords' = user_coords
                           /\ current_spot' = current_spot
                           /\ events' = events ]_vars

\* C7 (amended): a run without a fix never changes the stored position, and
\* it leaves the current point unchanged and emits nothing when the arrival
\* check has already run on the stored position.
C7_NoFixNoOpOnceChecked ==
    [][ /\ NoFixGps => user_coords' = user_coords
        /\ NoFixArrival => user_coords' = user_coords
        /\ (NoFixArrival /\ checked) => /\ current_spot' = current_spot
                                        /\ events' = events ]_vars

\* a run without a fix stands at the arrival check, inside P, the check
\* having run on the stored position before
C7_Witness ==
    /\ pc = "map" /\ loc = Nil /\ checked
    /\ user_coords # Nil
    /\ panel = "P" /\ current_spot = "P"

\* C8: a fix with a latitude or longitude out of range is never stored as the
\* session position, and no run crashes.
C8_InvalidFixRejected ==
    /\ user_coords # Nil => ValidFix(user_coords)
    /\ panel # "crash"

\* the steps that call check_mqtt (the MQTT thread leaves file or msg changed)
Ingest == pc \in {"idle", "top", "mqtt"} /\ file' = file /\ msg' = msg
Readable(f) == f # Absent /\ f # Truncated /\ f # Partial

\* C9: an ingest accepts the command in the file iff its timestamp is strictly
\* greater than last_mqtt_time; on acceptance last_mqtt_time becomes that
\* timestamp (and a non-empty command becomes the active override), on
\* rejection last_mqtt_time and the active override are unchanged; no other
\* step changes last_mqtt_time, which never decreases.
C9_IngestRule ==
    [][ /\ Ingest =>
            IF Readable(file) /\ file.timestamp > last_mqtt_time
            THEN /\ last_mqtt_time' = file.timestamp
                 /\ file.cmd # "" => mqtt_action' = file.cmd
            ELSE /\ last_mqtt_time' = last_mqtt_time
                 /\ mqtt_action' = mqtt_action
        /\ ~Ingest => last_mqtt_time' = last_mqtt_time
        /\ last_mqtt_time' >= last_mqtt_time ]_vars

\* "sos" was accepted and presented at time 1; "welcome", stamped with the
\* same time, has been polled by this run and was not accepted
C9_Witness ==
    /\ Readable(file) /\ file.cmd = "welcome" /\ file.timestamp = 1
    /\ last_mqtt_time = 1
    /\ shown = [c \in Commands |-> IF c = "sos" THEN 1 ELSE 0]
    /\ mqtt_action = None
    /\ pc = "map" /\ feed = 0 /\ msg = Nil

\* C10: a command the feed delivers more than once is presented at most once.
C10_PresentedOnce == \A c \in Commands : shown[c] <= 1

\* the active override, counted as one pending presentation of its command
Pending(c) == IF mqtt_action = c THEN 1 ELSE 0

\* C11: each accepted command is displayed at most once: the presentations of
\* a command plus its pending override never exceed the times check_mqtt
\* accepted it, in the background worker or in the script; so once the active
\* override is presented and cleared, no later run finds one unless a new
\* command is accepted.
C11_DisplayedAtMostOnce ==
    \A c \in Commands : shown[c] + Pending(c) <= accepted[c]

\* "sos" was accepted once and presented once; a later run has polled the
\* file, which still holds it, twice more and stands at the map with no
\* active override
C11_Witness ==
    /\ Readable(file) /\ file.cmd = "sos" /\ msg = Nil
    /\ accepted["sos"] = 1 /\ shown["sos"] = 1
    /\ mqtt_action = None
    /\ pc = "map"

\* the steps of lines 241-252: with and without an active override
Presentation == pc = "present" /\ pc' # pc /\ Truthy(mqtt_action)
NoPresentation == pc = "present" /\ pc' # pc /\ ~Truthy(mqtt_action)

\* C12: presenting the active override ends the run before the arrival check
\* and the question handling (the script starts again from the top) and
\* leaves the stored position, the current point and the emitted arrivals
\* unchanged; a run that finds no active override goes on to the map and the
\* arrival check.
C12_OverridePreempts ==
    [][ /\ Presentation => /\ pc' = "top"
                            /\ mqtt_action' = None
                            /\ user_coords' = user_coords
                            /\ current_spot' = current_spot
                            /\ events' = events
                            /\ panel' = panel
        /\ NoPresentation => /\ pc' = "map"
                              /\ session' = session ]_vars

\* inside P, "sos" has been presented and the run was abandoned
C12_Witness ==
    /\ current_spot = "P" /\ events = <<VisitEnter("P")>>
    /\ shown["sos"] = 1 /\ audio_to_play = "alert"
    /\ mqtt_action = None
    /\ pc = "top"

\* acceptance threshold of the best retrieval distance, in hundredths
ACCEPT_THRESHOLD == 35

\* the step of a script run that handles a submitted question
QuestionStep == asks' = asks + 1

\* C13: with the chain loaded, a question whose best retrieval distance lies
\* outside the threshold is answered OutOfScope and the language model is
\* not invoked; the language model is invoked only for a question whose best
\* distance lies within the threshold.
C13_OutOfScopeGate ==
    [][ /\ (QuestionStep /\ qa_chain_or_error = Chain /\ score' > ACCEPT_THRESHOLD)
           => (answer' = "OutOfScope" /\ generated' = generated)
        /\ generated' # generated => score' <= ACCEPT_THRESHOLD ]_vars

\* C14: when the faiss_index directory or GOOGLE_API_KEY is missing, every
\* question is answered with the message that names the missing dependency
\* (the index when both are missing), which is neither an answer nor a
\* refusal, and neither the retriever nor the language model is invoked.
C14_FailClosed ==
    [][ (QuestionStep /\ (~deps.index \/ ~deps.key))
        => /\ answer' = IF ~deps.index THEN IndexMissing ELSE KeyMissing
           /\ IndexMissing # KeyMissing
           /\ answer' \notin {"Answered", "OutOfScope", "raised", "none"}
           /\ panel' # "crash"
           /\ retrieved' = retrieved
           /\ generated' = generated ]_vars

\* the key is missing, two questions were asked and answered with the message
C14_Witness ==
    /\ deps.index /\ ~deps.key
    /\ asks = 2
    /\ answer = KeyMissing
    /\ retrieved = 0 /\ generated = 0
    /\ pc = "idle" /\ panel = "P"

\* C15: a failure of the language model while answering is returned as an
\* Unavailable outcome and is never thrown out of the question handling: no
\* question ends with an exception.
C15_FailureReturned == answer # "raised"

\* the "no content" sentinel, and the content key the claim describes
NoContent == "NoContent"
ContentKey(lang, key) ==
    LET requested == IF lang = "Chinese" THEN "cn" ELSE "tw" IN
    IF requested \in files THEN AudioPath(key, requested)
    ELSE IF "cn" \in files THEN AudioPath(key, "cn")
    ELSE NoContent

\* the step of a script run in which the play button was clicked
PlayStep == pc = "map" /\ pc' = "top"

\* C16: a click on the play button selects the audio of the requested
\* language when that file exists, otherwise the audio of the default
\* language (Chinese) when that file exists, otherwise the "no content"
\* sentinel: never a file that does not exist, for both languages and every
\* combination of existing files.
C16_ContentKey ==
    [][ PlayStep => audio_to_play' = ContentKey(request'.lang, request'.key) ]_vars

\* the spot at index i is at the least distance from the position, and is the
\* first such spot in the insertion order of SPOTS
FirstNearest(coords, i) ==
    /\ \A j \in 1..Len(SPOTS) : DistToNth(coords, i) <= DistToNth(coords, j)
    /\ \A j \in 1..(i - 1) : DistToNth(coords, i) < DistToNth(coords, j)

\* C17: for every stored position and every non-empty SPOTS, the nearest-spot
\* loop of a run yields a spot at the least distance, the first one in
\* insertion order when several are equally near, together with that
\* distance; the arrival check and the panel of the run use that spot.
C17_NearestFirstMin ==
    [][ (ArrivalCheck /\ SPOTS # <<>> /\ user_coords # Nil)
        => \E i \in 1..Len(SPOTS) :
              /\ FirstNearest(user_coords, i)
              /\ Nearest(SPOTS, user_coords).nearest_key = SPOTS[i].key
              /\ Nearest(SPOTS, user_coords).min_dist = Fin(DistToNth(user_coords, i))
              /\ IF DistToNth(user_coords, i) <= TRIGGER_DIST
                 THEN current_spot' = SPOTS[i].key /\ panel' = SPOTS[i].key
                 ELSE current_spot' = current_spot /\ panel' = "far" ]_vars

\* the position is 100 m from both P and Q; the run showed P, the first of
\* the two in SPOTS
C17_Witness ==
    /\ SPOTS = <<SpotP, SpotQ>>
    /\ user_coords = Pos(100, 0)
    /\ checked /\ pc = "idle"
    /\ panel = "P" /\ current_spot = "P"
    /\ events = <<VisitEnter("P")>>

\* C18: an empty point index is fatal at startup: with an empty SPOTS the
\* initialization aborts, so no run gets to the nearest-spot loop and to the
\* panel that follows it.
C18_EmptyIndexFatal == SPOTS = <<>> => panel = "init"

\* C19: a check_mqtt call that reads the file while on_message is between
\* its truncation and the end of its dump returns None and leaves
\* last_mqtt_time and the active override unchanged; last_mqtt_time advances
\* only to the timestamp of a complete record whose command is returned
\* whole; and the record, once written, is accepted by the next poll under the
\* usual rule (its timestamp is newer than last_mqtt_time), whether or not an
\* earlier poll read the file during the write.
C19_InterleavingSafe ==
    [][ Ingest =>
          /\ msg # Nil => /\ ~Readable(file)
                          /\ last_mqtt_time' = last_mqtt_time
                          /\ mqtt_action' = mqtt_action
                          /\ accepted' = accepted
          /\ (last_mqtt_time' # last_mqtt_time \/ mqtt_action' # mqtt_action
                                               \/ accepted' # accepted)
                => /\ Readable(file)
                   /\ last_mqtt_time' = file.timestamp
                   /\ accepted' = Accept(file.cmd)
                   /\ mqtt_action' \in {file.cmd, mqtt_action}
          /\ (torn /\ Readable(file) /\ file.timestamp > last_mqtt_time)
                => /\ last_mqtt_time' = file.timestamp
                   /\ accepted' = Accept(file.cmd)
                   /\ file.cmd # "" => mqtt_action' = file.cmd ]_vars

\* a poll read the file while "sos" was being written and returned nothing;
\* a later poll accepted the complete record, and "sos" was presented
C19_Witness ==
    /\ torn /\ msg = Nil
    /\ Readable(file) /\ file.cmd = "sos"
    /\ last_mqtt_time = file.timestamp
    /\ accepted = [c \in Commands |-> IF c = "sos" THEN 1 ELSE 0]
    /\ shown = accepted
    /\ feed = MaxDeliver - 1

\* C20: no accepted command is dropped unpresented: every command check_mqtt
\* has returned was presented exactly once or is the active override that
\* the run is about to present, also when the background worker accepts one
\* command and the script accepts a newer one in the rerun that follows.
C20_NoAcceptedDropped ==
    \A c \in Commands : accepted[c] = shown[c] + Pending(c)

\* the GPS handling of a run that received a fix (stored, kept or raising)
FixGps == pc = "gps" /\ pc' # "gps" /\ ~NoFixGps

\* both positions have a latitude geodesic accepts, so their distance exists
Measurable(a, b) == a # Nil /\ b # Nil /\ ~geodesic(a, b).err

\* C21: movement debounce: the stored position is None exactly until the
\* first fix arrives, and only the GPS handling of a run with a fix changes
\* it; the first fix is always stored; a later fix replaces the stored
\* position iff its distance from the stored position is strictly greater
\* than MOVE_THRESHOLD; so the stored position is always within
\* MOVE_THRESHOLD of the most recent fix (for positions whose distance
\* exists).
C21_MovementDebounce ==
    [][ /\ (user_coords' = Nil) <=> (last_fix' = Nil)
        /\ ~FixGps => (user_coords' = user_coords /\ last_fix' = last_fix)
        /\ (FixGps /\ user_coords = Nil) => user_coords' = last_fix'
        /\ (FixGps /\ Measurable(user_coords, last_fix'))
              => user_coords' =
                   IF geodesic(user_coords, last_fix').meters > MOVE_THRESHOLD
                   THEN last_fix'
                   ELSE user_coords
        /\ Measurable(user_coords', last_fix')
              => geodesic(user_coords', last_fix').meters <= MOVE_THRESHOLD ]_vars

\* 150 is stored and the run's fix 155, exactly MOVE_THRESHOLD away, did not
\* replace it
C21_Witness ==
    /\ user_coords = Pos(150, 0) /\ last_fix = Pos(155, 0)
    /\ pc = "mqtt" /\ loc = Pos(155, 0)

====
